---------------------------- MODULE Spec2Model ----------------------------
(***************************************************************************)
(* Cross-validation diagnostics of bofire (bofire/models/diagnostics.py):  *)
(* the CvResult container of one fold, the CvResults container of all      *)
(* folds, the validation both run at construction, fold combination and    *)
(* metric dispatch.                                                        *)
(*                                                                         *)
(* Data representation                                                     *)
(*   cell        <<kind, v>>: kind "num" is a number v, kind "str" is a    *)
(*               non-numeric object (the category strings of the tests)    *)
(*   pd.Series   a sequence of cells                                       *)
(*   pd.DataFrame [columns |-> sequence of distinct column names,          *)
(*               rows |-> sequence of rows, a row being a sequence of      *)
(*               cells positionally aligned with columns]                  *)
(*   Optional    None is <<>>, a present value v is <<v>>                  *)
(*   outcome     <<"ok", value>> or <<"raise", kind, detail>>; every error *)
(*               of the module is a ValueError, kind names its message     *)
(***************************************************************************)
EXTENDS Integers, Sequences, FiniteSets, TLC

VARIABLES
    values,     \* keyword arguments handed to CvResult(...)
    cv,         \* outcome of that construction (None before it ran)
    folds,      \* sequence of CvResult objects handed to CvResults(results=...)
    cvs,        \* outcome of that construction (None before it ran)
    call,       \* the call in progress: <<name, arguments...>>, <<>> when idle
    ret         \* what the call in progress returned or raised, None when idle

vars == <<values, cv, folds, cvs, call, ret>>

\* Longest Series handed to the CvResult constructor.
MaxLen == 2
\* Most samples in a fold of a collection.
MaxFoldLen == 2
\* Most folds handed to the CvResults constructor.
MaxFolds == 2
\* Longest array handed to a metric function directly.
MaxArrayLen == 3

---------------------------------------------------------------------------
\* Optional values and outcomes

None == <<>>

Some(v) == <<v>>

IsNone(o) == Len(o) = 0

Get(o) == o[1]

Ok(v) == <<"ok", v>>

Raise(kind, detail) == <<"raise", kind, detail>>

IsOk(r) == Len(r) > 0 /\ r[1] = "ok"

Raises(r, kind) == Len(r) > 0 /\ r[1] = "raise" /\ r[2] = kind

---------------------------------------------------------------------------
\* Sequences

RECURSIVE Flatten(_)
Flatten(ss) == IF ss = <<>> THEN <<>> ELSE Head(ss) \o Flatten(Tail(ss))

RECURSIVE SumSeq(_)
SumSeq(s) == IF s = <<>> THEN 0 ELSE Head(s) + SumSeq(Tail(s))

Abs(x) == IF x < 0 THEN -x ELSE x

RECURSIVE MaxOf(_)
MaxOf(s) ==
    IF s = <<>> THEN 0
    ELSE IF Head(s) >= MaxOf(Tail(s)) THEN Head(s) ELSE MaxOf(Tail(s))

Range(s) == {s[i] : i \in 1..Len(s)}

\* numpy slice a[-k:]; with k = 0 the slice a[-0:] is a[0:], the whole array
LastK(s, k) == IF k = 0 \/ k >= Len(s) THEN s ELSE SubSeq(s, Len(s) - k + 1, Len(s))

\* ndarray.argsort(axis=0): the (0-based) indices that sort the array
\* ascending; arrays this short are insertion-sorted, ties keep their order
RECURSIVE InsertIdx(_, _, _)
InsertIdx(sorted, i, a) ==
    IF sorted = <<>> THEN <<i>>
    ELSE IF a[i + 1] < a[Head(sorted) + 1] THEN <<i>> \o sorted
    ELSE <<Head(sorted)>> \o InsertIdx(Tail(sorted), i, a)

RECURSIVE ArgsortUpTo(_, _)
ArgsortUpTo(a, n) ==
    IF n = 0 THEN <<>> ELSE InsertIdx(ArgsortUpTo(a, n - 1), n - 1, a)

argsort(a) == ArgsortUpTo(a, Len(a))

---------------------------------------------------------------------------
\* Cells, Series, DataFrames

Num(v) == <<"num", v>>

Str(v) == <<"str", v>>

\* Series.values / the numbers a numeric Series holds
Values(series) == [i \in 1..Len(series) |-> series[i][2]]

\* bofire.domain.util.is_numeric: every element converts to a number
is_numeric(series) == \A i \in 1..Len(series) : series[i][1] = "num"

\* Python's order on the column names in use
ColOrd(c) == CASE c = "a" -> 1 [] c = "b" -> 2 [] c = "c" -> 3 [] OTHER -> 4

RECURSIVE InsertCol(_, _)
InsertCol(srt, c) ==
    IF srt = <<>> THEN <<c>>
    ELSE IF ColOrd(c) < ColOrd(Head(srt)) THEN <<c>> \o srt
    ELSE <<Head(srt)>> \o InsertCol(Tail(srt), c)

\* sorted(list(X.columns))
RECURSIVE sorted(_)
sorted(cols) ==
    IF cols = <<>> THEN <<>>
    ELSE InsertCol(sorted(SubSeq(cols, 1, Len(cols) - 1)), cols[Len(cols)])

IndexOf(cols, c) == CHOOSE j \in 1..Len(cols) : cols[j] = c

\* pd.concat(series, ignore_index=True): the values end to end, renumbered
ConcatSeries(ss) == Flatten(ss)

\* columns of an outer-join concat: the first frame's, then new ones as met
RECURSIVE UnionColumns(_, _)
UnionColumns(acc, frames) ==
    IF frames = <<>> THEN acc
    ELSE LET new == SelectSeq(Head(frames).columns, LAMBDA c : c \notin Range(acc))
         IN UnionColumns(acc \o new, Tail(frames))

\* a frame's rows laid out under the columns cols, matched by column name
Reindex(frame, cols) ==
    [r \in 1..Len(frame.rows) |->
        [j \in 1..Len(cols) |->
            IF cols[j] \in Range(frame.columns)
            THEN frame.rows[r][IndexOf(frame.columns, cols[j])]
            ELSE <<"nan", 0>>]]

\* pd.concat(frames, ignore_index=True): rows end to end, renumbered
ConcatFrames(frames) ==
    LET cols == UnionColumns(<<>>, frames)
    IN [columns |-> cols,
        rows |-> Flatten([k \in 1..Len(frames) |-> Reindex(frames[k], cols)])]

---------------------------------------------------------------------------
\* The metric functions: (observed, predicted, standard_deviation) -> float.
\* A mean is kept as the exact fraction <<"ratio", numerator, denominator>>;
\* a value computed by scipy / sklearn from the arrays is kept as the call
\* <<function, first argument, second argument>>.

Ratio(num, den) == <<"ratio", num, den>>

\* the summed absolute error, not divided by the number of samples
_mean_absolute_error_Sum(observed, predicted, standard_deviation) ==
    Ratio(SumSeq([i \in 1..Len(observed) |-> Abs(observed[i] - predicted[i])]), 1)

_mean_absolute_error(observed, predicted, standard_deviation) ==
    Ratio(SumSeq([i \in 1..Len(observed) |-> Abs(observed[i] - predicted[i])]),
          Len(observed))

_mean_squared_error(observed, predicted, standard_deviation) ==
    Ratio(SumSeq([i \in 1..Len(observed) |->
                    (observed[i] - predicted[i]) * (observed[i] - predicted[i])]),
          Len(observed))

_mean_absolute_percentage_error(observed, predicted, standard_deviation) ==
    <<"mean_absolute_percentage_error", observed, predicted>>

_r2_score(observed, predicted, standard_deviation) ==
    <<"r2_score", observed, predicted>>

_pearson(observed, predicted, standard_deviation) ==
    <<"pearsonr", predicted, observed>>

_spearman(observed, predicted, standard_deviation) ==
    <<"spearmanr", predicted, observed>>

\* the 2x2 contingency table <<tp, fp, fn, tn>> of _fisher_exact_test_p
\* a.argsort(axis=0)[-n_half:] with n_half = len(a) // 2
TopHalf(a) == LastK(argsort(a), Len(a) \div 2)

FisherTable(observed, predicted) ==
    LET n_half  == Len(observed) \div 2
        top_obs == LastK(argsort(observed), n_half)
        top_est == LastK(argsort(predicted), n_half)
        tp      == Cardinality(Range(top_est) \cap Range(top_obs))
        fp      == n_half - tp
        fn      == n_half - tp
        tn      == (Len(observed) - n_half) - (n_half - tp)
    IN <<tp, fp, fn, tn>>

_fisher_exact_test_p(observed, predicted, standard_deviation) ==
    <<"fisher_exact", FisherTable(observed, predicted), "greater">>

\* RegressionMetricsEnum members, in the order of the registry
MetricIds == {"MAE", "MSD", "R2", "MAPE", "PEARSON", "SPEARMAN", "FISHER"}

\* metrics[metric](observed, predicted, standard_deviation)
metrics(metric, observed, predicted, standard_deviation) ==
    CASE metric = "MAE"      -> _mean_absolute_error(observed, predicted, standard_deviation)
      [] metric = "MSD"      -> _mean_squared_error(observed, predicted, standard_deviation)
      [] metric = "R2"       -> _r2_score(observed, predicted, standard_deviation)
      [] metric = "MAPE"     -> _mean_absolute_percentage_error(observed, predicted, standard_deviation)
      [] metric = "PEARSON"  -> _pearson(observed, predicted, standard_deviation)
      [] metric = "SPEARMAN" -> _spearman(observed, predicted, standard_deviation)
      [] metric = "FISHER"   -> _fisher_exact_test_p(observed, predicted, standard_deviation)

---------------------------------------------------------------------------
\* CvResult: one fold

\* validate_shapes without its last check, the row count of X
validate_shapes_NoX(v) ==
    IF ~(Len(v.predicted) = Len(v.observed))
    THEN Raise("ShapeMismatch", <<"predicted", "observed">>)
    ELSE IF ~IsNone(v.standard_deviation)
            /\ ~(Len(v.predicted) = Len(Get(v.standard_deviation)))
    THEN Raise("ShapeMismatch", <<"predicted", "standard_deviation">>)
    ELSE IF ~IsNone(v.labcodes) /\ ~(Len(v.predicted) = Len(Get(v.labcodes)))
    THEN Raise("ShapeMismatch", <<"predicted", "labcodes">>)
    ELSE Ok(v)

\* root_validator(pre=True): runs on the raw arguments before any field
\* validator; the first mismatch raises
validate_shapes(v) ==
    IF ~(Len(v.predicted) = Len(v.observed))
    THEN Raise("ShapeMismatch", <<"predicted", "observed">>)
    ELSE IF ~IsNone(v.standard_deviation)
            /\ ~(Len(v.predicted) = Len(Get(v.standard_deviation)))
    THEN Raise("ShapeMismatch", <<"predicted", "standard_deviation">>)
    ELSE IF ~IsNone(v.labcodes) /\ ~(Len(v.predicted) = Len(Get(v.labcodes)))
    THEN Raise("ShapeMismatch", <<"predicted", "labcodes">>)
    ELSE IF ~IsNone(v.X) /\ ~(Len(v.predicted) = Len(Get(v.X).rows))
    THEN Raise("ShapeMismatch", <<"predicted", "X">>)
    ELSE Ok(v)

validate_observed(v) ==
    IF ~is_numeric(v) THEN <<"observed">> ELSE <<>>

validate_predicted(v) ==
    IF ~is_numeric(v) THEN <<"predicted">> ELSE <<>>

\* validate_standard_deviation that lets every value through
validate_standard_deviation_Unchecked(v) == <<>>

validate_standard_deviation(v) ==
    IF ~IsNone(v) /\ ~is_numeric(Get(v)) THEN <<"standard_deviation">> ELSE <<>>

\* CvResult(...) with validate_shapes run as an ordinary (post) root
\* validator, after the field validators
CvResultInit_TypesFirst(v) ==
    LET bad == (IF ~is_numeric(v.observed) THEN <<"observed">> ELSE <<>>)
               \o (IF ~is_numeric(v.predicted) THEN <<"predicted">> ELSE <<>>)
               \o (IF ~IsNone(v.standard_deviation) /\ ~is_numeric(Get(v.standard_deviation))
                   THEN <<"standard_deviation">> ELSE <<>>)
    IN IF bad # <<>> THEN Raise("NotNumeric", bad)
       ELSE IF ~(Len(v.predicted) = Len(v.observed))
       THEN Raise("ShapeMismatch", <<"predicted", "observed">>)
       ELSE IF ~IsNone(v.standard_deviation)
               /\ ~(Len(v.predicted) = Len(Get(v.standard_deviation)))
       THEN Raise("ShapeMismatch", <<"predicted", "standard_deviation">>)
       ELSE IF ~IsNone(v.labcodes) /\ ~(Len(v.predicted) = Len(Get(v.labcodes)))
       THEN Raise("ShapeMismatch", <<"predicted", "labcodes">>)
       ELSE IF ~IsNone(v.X) /\ ~(Len(v.predicted) = Len(Get(v.X).rows))
       THEN Raise("ShapeMismatch", <<"predicted", "X">>)
       ELSE Ok(v)

\* CvResult(key=..., observed=..., ...): the pre root validator, then the
\* field validators in field order, whose errors are raised together
CvResultInit(v) ==
    LET shapes == validate_shapes(v)
        bad    == validate_observed(v.observed)
                  \o validate_predicted(v.predicted)
                  \o validate_standard_deviation(v.standard_deviation)
    IN IF ~IsOk(shapes) THEN shapes
       ELSE IF bad # <<>> THEN Raise("NotNumeric", bad)
       ELSE Ok(v)

\* CvResult.get_metric guarding only the metrics that need two points
CvResult_get_metric_GuardCorrelations(self, metric) ==
    IF Len(self.observed) = 1 /\ metric \in {"PEARSON", "SPEARMAN", "FISHER"}
    THEN Raise("InsufficientSamples", <<>>)
    ELSE Ok(metrics(metric, Values(self.observed), Values(self.predicted),
                    self.standard_deviation))

n_samples(self) == Len(self.observed)

\* CvResult.get_metric
CvResult_get_metric(self, metric) ==
    IF n_samples(self) = 1
    THEN Raise("InsufficientSamples", <<>>)
    ELSE Ok(metrics(metric, Values(self.observed), Values(self.predicted),
                    self.standard_deviation))

---------------------------------------------------------------------------
\* CvResults: all folds of one cross-validation run

\* getattr(fold, field) is not None
HasField(fold, field) ==
    CASE field = "standard_deviation" -> ~IsNone(fold.standard_deviation)
      [] field = "labcodes"           -> ~IsNone(fold.labcodes)
      [] field = "X"                  -> ~IsNone(fold.X)

OptionalFields == <<"standard_deviation", "labcodes", "X">>

\* validate_results comparing the column lists as they are, unsorted
validate_results_OrderSensitive(v) ==
    IF Len(v) <= 1
    THEN Raise("EmptyCollection", <<>>)
    ELSE IF \E i \in 1..Len(v) : v[i].key # v[1].key
    THEN Raise("KeyMismatch", <<>>)
    ELSE IF \E f \in 1..Len(OptionalFields) : \E i \in 1..Len(v) :
                HasField(v[1], OptionalFields[f]) # HasField(v[i], OptionalFields[f])
    THEN Raise("FieldPresenceMismatch", <<>>)
    ELSE IF ~IsNone(v[1].X)
            /\ \E i \in 1..Len(v) : Get(v[i].X).columns # Get(v[1].X).columns
    THEN Raise("ColumnMismatch", <<>>)
    ELSE Ok(v)

\* validator("results")
validate_results(v) ==
    IF Len(v) <= 1
    THEN Raise("EmptyCollection", <<>>)
    ELSE IF \E i \in 1..Len(v) : v[i].key # v[1].key
    THEN Raise("KeyMismatch", <<>>)
    ELSE IF \E f \in 1..Len(OptionalFields) : \E i \in 1..Len(v) :
                HasField(v[1], OptionalFields[f]) # HasField(v[i], OptionalFields[f])
    THEN Raise("FieldPresenceMismatch",
               <<OptionalFields[CHOOSE f \in 1..Len(OptionalFields) :
                    /\ \E i \in 1..Len(v) :
                         HasField(v[1], OptionalFields[f]) # HasField(v[i], OptionalFields[f])
                    /\ \A g \in 1..(f - 1) : \A i \in 1..Len(v) :
                         HasField(v[1], OptionalFields[g]) = HasField(v[i], OptionalFields[g])]>>)
    ELSE IF ~IsNone(v[1].X)
            /\ \E i \in 1..Len(v) :
                 sorted(Get(v[i].X).columns) # sorted(Get(v[1].X).columns)
    THEN Raise("ColumnMismatch", <<>>)
    ELSE Ok(v)

\* CvResults(results=...)
CvResultsInit(v) ==
    LET r == validate_results(v)
    IN IF IsOk(r) THEN Ok([results |-> r[2]]) ELSE r

\* CvResults.key
key(self) == self.results[1].key

\* is_loo with any() in place of all()
is_loo_Any(self) ==
    \E i \in 1..Len(self.results) : Len(self.results[i].observed) = 1

\* CvResults.is_loo
is_loo(self) ==
    LET ones == [i \in 1..Len(self.results) |-> n_samples(self.results[i]) = 1]
    IN \A i \in 1..Len(ones) : ones[i]

\* _combine_folds combining only what its docstring lists: predicted,
\* observed and standard_deviation
_combine_folds_NoLabcodesNoX(self) ==
    LET rs == self.results
    IN CvResultInit([key |-> rs[1].key,
                     observed |-> ConcatSeries([i \in 1..Len(rs) |-> rs[i].observed]),
                     predicted |-> ConcatSeries([i \in 1..Len(rs) |-> rs[i].predicted]),
                     standard_deviation |->
                        IF ~IsNone(rs[1].standard_deviation)
                        THEN Some(ConcatSeries([i \in 1..Len(rs) |->
                                                   Get(rs[i].standard_deviation)]))
                        ELSE None,
                     labcodes |-> None,
                     X |-> None])

\* CvResults._combine_folds: the outcome of the CvResult construction that
\* ends it
_combine_folds(self) ==
    LET rs       == self.results
        observed == ConcatSeries([i \in 1..Len(rs) |-> rs[i].observed])
        predicted == ConcatSeries([i \in 1..Len(rs) |-> rs[i].predicted])
        sd       == IF ~IsNone(rs[1].standard_deviation)
                    THEN Some(ConcatSeries([i \in 1..Len(rs) |-> Get(rs[i].standard_deviation)]))
                    ELSE None
        labcodes == IF ~IsNone(rs[1].labcodes)
                    THEN Some(ConcatSeries([i \in 1..Len(rs) |-> Get(rs[i].labcodes)]))
                    ELSE None
        X        == IF ~IsNone(rs[1].X)
                    THEN Some(ConcatFrames([i \in 1..Len(rs) |-> Get(rs[i].X)]))
                    ELSE None
    IN CvResultInit([key |-> rs[1].key,
                     observed |-> observed,
                     predicted |-> predicted,
                     standard_deviation |-> sd,
                     labcodes |-> labcodes,
                     X |-> X])

\* pd.Series(data, name=name)
NamedSeries(name, data) == [name |-> name, data |-> data]

\* the first exception a list comprehension meets, None when it meets none
FirstRaise(outcomes) ==
    IF \E i \in 1..Len(outcomes) : ~IsOk(outcomes[i])
    THEN Some(outcomes[CHOOSE i \in 1..Len(outcomes) :
                  /\ ~IsOk(outcomes[i])
                  /\ \A j \in 1..(i - 1) : IsOk(outcomes[j])])
    ELSE None

\* get_metric that combines the folds whatever combine_folds says
CvResults_get_metric_AlwaysCombine(self, metric, combine_folds) ==
    LET combined == _combine_folds(self)
    IN IF ~IsOk(combined) THEN combined
       ELSE LET m == CvResult_get_metric(combined[2], metric)
            IN IF ~IsOk(m) THEN m
               ELSE Ok(NamedSeries(metric, <<m[2]>>))

\* CvResults.get_metric
CvResults_get_metric(self, metric, combine_folds) ==
    IF is_loo(self) \/ combine_folds
    THEN LET combined == _combine_folds(self)
         IN IF ~IsOk(combined) THEN combined
            ELSE LET m == CvResult_get_metric(combined[2], metric)
                 IN IF ~IsOk(m) THEN m
                    ELSE Ok(NamedSeries(metric, <<m[2]>>))
    ELSE LET per_fold == [i \in 1..Len(self.results) |->
                             CvResult_get_metric(self.results[i], metric)]
         IN IF ~IsNone(FirstRaise(per_fold)) THEN Get(FirstRaise(per_fold))
            ELSE Ok(NamedSeries(metric, [i \in 1..Len(per_fold) |-> per_fold[i][2]]))

\* the default of get_metrics' parameter metrics
DefaultMetrics == <<"MAE", "MSD", "R2", "MAPE", "PEARSON", "SPEARMAN", "FISHER">>

\* pd.concat(series, axis=1): one column per Series, named by it, rows
\* aligned on the index; an empty list raises
ConcatColumns(series) ==
    IF series = <<>>
    THEN Raise("NoObjectsToConcatenate", <<>>)
    ELSE LET n_rows == MaxOf([j \in 1..Len(series) |-> Len(series[j].data)])
         IN Ok([columns |-> [j \in 1..Len(series) |-> series[j].name],
                rows |-> [r \in 1..n_rows |->
                            [j \in 1..Len(series) |->
                                IF r <= Len(series[j].data)
                                THEN series[j].data[r] ELSE <<"nan", 0>>]]])

\* get_metrics calling get_metric(m) without handing combine_folds on
CvResults_get_metrics_FlagDropped(self, metric_list, combine_folds) ==
    LET each == [j \in 1..Len(metric_list) |->
                    CvResults_get_metric(self, metric_list[j], TRUE)]
    IN IF ~IsNone(FirstRaise(each)) THEN Get(FirstRaise(each))
       ELSE ConcatColumns([j \in 1..Len(each) |-> each[j][2]])

\* CvResults.get_metrics
CvResults_get_metrics(self, metric_list, combine_folds) ==
    LET each == [j \in 1..Len(metric_list) |->
                    CvResults_get_metric(self, metric_list[j], combine_folds)]
    IN IF ~IsNone(FirstRaise(each)) THEN Get(FirstRaise(each))
       ELSE ConcatColumns([j \in 1..Len(each) |-> each[j][2]])

---------------------------------------------------------------------------
\* Arguments the constructors are called with

SeqsUpTo(S, n) == UNION {[1..k -> S] : k \in 0..n}

\* a Series of k string labels, str(i) for i in range(k)
Labels(k) == [i \in 1..k |-> Str(i - 1)]

\* a DataFrame of k rows under the given columns, its cells all of one kind
Frame(columns, k, kind) ==
    [columns |-> columns,
     rows |-> [r \in 1..k |->
                 [j \in 1..Len(columns) |-> <<kind, 10 * ColOrd(columns[j]) + r>>]]]

FoldKeys == {"a", "b"}

\* CvResult(...) arguments of every shape: Series of numbers and strings of
\* independent lengths, each optional field absent or present
Cells == {Num(1), Str(1)}

ObservedCells == {Num(1), Num(2), Str(1)}

CvResultArgs ==
    [key : {"a"},
     observed : SeqsUpTo(ObservedCells, MaxLen),
     predicted : SeqsUpTo(Cells, MaxLen),
     standard_deviation : {None} \cup {Some(s) : s \in SeqsUpTo(Cells, MaxLen)},
     labcodes : {None} \cup {Some(Labels(k)) : k \in 0..MaxLen},
     X : {None}
         \cup {Some(Frame(<<"a", "b">>, k, "num")) : k \in 0..MaxLen}
         \cup {Some(Frame(<<"a", "b">>, k, "str")) : k \in 0..MaxLen}]

\* Folds for collections: a fold's data is a sequence of (observed, predicted)
\* samples; the optional fields it carries are derived from them
Samples == {<<1, 1>>, <<2, 4>>}

FoldArgs(k, data, with_sd, with_labcodes, columns) ==
    [key |-> k,
     observed |-> [i \in 1..Len(data) |-> Num(data[i][1])],
     predicted |-> [i \in 1..Len(data) |-> Num(data[i][2])],
     standard_deviation |->
        IF with_sd THEN Some([i \in 1..Len(data) |-> Num(data[i][1] + data[i][2])])
        ELSE None,
     labcodes |-> IF with_labcodes THEN Some(Labels(Len(data))) ELSE None,
     X |-> IF IsNone(columns) THEN None
           ELSE Some([columns |-> Get(columns),
                      rows |-> [r \in 1..Len(data) |->
                                  [j \in 1..Len(Get(columns)) |->
                                      Num(10 * ColOrd(Get(columns)[j]) + data[r][1])]]])]

\* the CvResult objects that construction yields for a set of arguments
Constructed(args) == {r[2] : r \in {CvResultInit(a) : a \in args} \cap {Ok(a) : a \in args}}

\* folds that differ in key, in the optional fields present and in the
\* columns of X
VariedFolds ==
    Constructed(
        {FoldArgs(k, d, FALSE, FALSE, None) : k \in FoldKeys, d \in {<< <<1, 1>> >>}}
        \cup {FoldArgs("a", d, sd, lab, None) :
                d \in {<< <<2, 4>>, <<1, 1>> >>}, sd \in BOOLEAN, lab \in BOOLEAN}
        \cup {FoldArgs("a", d, FALSE, FALSE, Some(c)) :
                d \in {<< <<1, 1>> >>, << <<2, 4>>, <<1, 1>> >>},
                c \in {<<"a", "b">>, <<"b", "a">>, <<"a", "b", "c">>}})

\* folds of every size and content, bare or carrying every optional field
SizedFolds ==
    Constructed(
        {FoldArgs("a", d, FALSE, FALSE, None) : d \in SeqsUpTo(Samples, MaxFoldLen)}
        \cup {FoldArgs("a", d, TRUE, TRUE, Some(<<"a", "b">>)) :
                d \in SeqsUpTo(Samples, MaxFoldLen)})

CvResultsArgs == SeqsUpTo(VariedFolds, MaxFolds) \cup SeqsUpTo(SizedFolds, MaxFolds)

MetricLists == {DefaultMetrics, <<>>, <<"R2", "MAE">>, <<"FISHER">>}

---------------------------------------------------------------------------
\* One fold: construction, then calls on the constructed object

InitFold ==
    /\ values \in CvResultArgs
    /\ cv = None
    /\ folds = <<>>
    /\ cvs = None
    /\ call = <<>>
    /\ ret = None

NewCvResult ==
    /\ cv = None
    /\ cv' = CvResultInit(values)
    /\ UNCHANGED <<values, folds, cvs, call, ret>>

FoldNSamples ==
    /\ IsOk(cv)
    /\ call = <<>>
    /\ call' = <<"n_samples">>
    /\ ret' = Ok(n_samples(cv[2]))
    /\ UNCHANGED <<values, cv, folds, cvs>>

FoldGetMetric(metric) ==
    /\ IsOk(cv)
    /\ call = <<>>
    /\ call' = <<"get_metric", metric>>
    /\ ret' = CvResult_get_metric(cv[2], metric)
    /\ UNCHANGED <<values, cv, folds, cvs>>

\* the caller has taken the result (or caught the exception)
Return ==
    /\ call # <<>>
    /\ call' = <<>>
    /\ ret' = None
    /\ UNCHANGED <<values, cv, folds, cvs>>

NextFold ==
    \/ NewCvResult
    \/ FoldNSamples
    \/ \E metric \in MetricIds : FoldGetMetric(metric)
    \/ Return

SpecFold == InitFold /\ [][NextFold]_vars

---------------------------------------------------------------------------
\* A collection of folds: construction, then calls on the constructed object

Init ==
    /\ values = None
    /\ cv = None
    /\ folds \in CvResultsArgs
    /\ cvs = None
    /\ call = <<>>
    /\ ret = None

NewCvResults ==
    /\ cvs = None
    /\ cvs' = CvResultsInit(folds)
    /\ UNCHANGED <<values, cv, folds, call, ret>>

Key ==
    /\ IsOk(cvs)
    /\ call = <<>>
    /\ call' = <<"key">>
    /\ ret' = Ok(key(cvs[2]))
    /\ UNCHANGED <<values, cv, folds, cvs>>

IsLoo ==
    /\ IsOk(cvs)
    /\ call = <<>>
    /\ call' = <<"is_loo">>
    /\ ret' = Ok(is_loo(cvs[2]))
    /\ UNCHANGED <<values, cv, folds, cvs>>

\* combining in place: the combined fold replaces the stored folds
CombineFolds_InPlace ==
    /\ IsOk(cvs)
    /\ call = <<>>
    /\ call' = <<"_combine_folds">>
    /\ ret' = _combine_folds(cvs[2])
    /\ cvs' = IF IsOk(_combine_folds(cvs[2]))
              THEN Ok([cvs[2] EXCEPT !.results = <<_combine_folds(cvs[2])[2]>>])
              ELSE cvs
    /\ UNCHANGED <<values, cv, folds>>

CombineFolds ==
    /\ IsOk(cvs)
    /\ call = <<>>
    /\ call' = <<"_combine_folds">>
    /\ ret' = _combine_folds(cvs[2])
    /\ UNCHANGED <<values, cv, folds, cvs>>

GetMetric(metric, combine_folds) ==
    /\ IsOk(cvs)
    /\ call = <<>>
    /\ call' = <<"get_metric", metric, combine_folds>>
    /\ ret' = CvResults_get_metric(cvs[2], metric, combine_folds)
    /\ UNCHANGED <<values, cv, folds, cvs>>

GetMetrics(metric_list, combine_folds) ==
    /\ IsOk(cvs)
    /\ call = <<>>
    /\ call' = <<"get_metrics", metric_list, combine_folds>>
    /\ ret' = CvResults_get_metrics(cvs[2], metric_list, combine_folds)
    /\ UNCHANGED <<values, cv, folds, cvs>>

Next ==
    \/ NewCvResults
    \/ Key
    \/ IsLoo
    \/ CombineFolds
    \/ \E metric \in MetricIds, combine_folds \in BOOLEAN :
          GetMetric(metric, combine_folds)
    \/ \E metric_list \in MetricLists, combine_folds \in BOOLEAN :
          GetMetrics(metric_list, combine_folds)
    \/ Return

Spec == Init /\ [][Next]_vars

---------------------------------------------------------------------------
\* The same collection, read through its folds as well: self[i] is the
\* stored CvResult (i counts from 1 here, from 0 in Python)

ItemNSamples(i) ==
    /\ IsOk(cvs)
    /\ call = <<>>
    /\ i \in 1..Len(cvs[2].results)
    /\ call' = <<"getitem.n_samples", i>>
    /\ ret' = Ok(n_samples(cvs[2].results[i]))
    /\ UNCHANGED <<values, cv, folds, cvs>>

ItemGetMetric(i, metric) ==
    /\ IsOk(cvs)
    /\ call = <<>>
    /\ i \in 1..Len(cvs[2].results)
    /\ call' = <<"getitem.get_metric", i, metric>>
    /\ ret' = CvResult_get_metric(cvs[2].results[i], metric)
    /\ UNCHANGED <<values, cv, folds, cvs>>

NextReads ==
    \/ Next
    \/ \E i \in 1..MaxFolds : ItemNSamples(i)
    \/ \E i \in 1..MaxFolds, metric \in MetricIds : ItemGetMetric(i, metric)

SpecReads == Init /\ [][NextReads]_vars

---------------------------------------------------------------------------
\* The Fisher metric called directly on two arrays of equal length

\* arrays of n numbers; MaxArrayLen values give every ordering, ties included
Arrays(n) == [1..n -> 1..MaxArrayLen]

InitFisher ==
    /\ values \in {[observed |-> o, predicted |-> p] :
                     <<o, p>> \in UNION {Arrays(n) \X Arrays(n) : n \in 0..MaxArrayLen}}
    /\ cv = None
    /\ folds = <<>>
    /\ cvs = None
    /\ call = <<>>
    /\ ret = None

FisherExactTestP ==
    /\ call = <<>>
    /\ call' = <<"_fisher_exact_test_p">>
    /\ ret' = Ok(_fisher_exact_test_p(values.observed, values.predicted, None))
    /\ UNCHANGED <<values, cv, folds, cvs>>

NextFisher ==
    \/ FisherExactTestP
    \/ Return

SpecFisher == InitFisher /\ [][NextFisher]_vars

---------------------------------------------------------------------------
\* Properties of CvResult construction and CvResult.get_metric (SpecFold)

\* the construction of the fold has run
Constructed_cv == ~IsNone(cv)

\* some present field of the arguments differs in length from observed
LengthsDiffer(v) ==
    \/ Len(v.predicted) # Len(v.observed)
    \/ ~IsNone(v.standard_deviation) /\ Len(Get(v.standard_deviation)) # Len(v.observed)
    \/ ~IsNone(v.labcodes) /\ Len(Get(v.labcodes)) # Len(v.observed)
    \/ ~IsNone(v.X) /\ Len(Get(v.X).rows) # Len(v.observed)

HasString(series) == \E i \in 1..Len(series) : series[i][1] # "num"

\* observed, predicted or a present standard_deviation holds a non-number
NonNumericField(v) ==
    \/ HasString(v.observed)
    \/ HasString(v.predicted)
    \/ ~IsNone(v.standard_deviation) /\ HasString(Get(v.standard_deviation))

\* C3: construction raises ShapeMismatch whenever predicted, or a present
\* standard_deviation, labcodes or X (by rows), differs in length from
\* observed; every constructed fold has all its present fields of length
\* n_samples.
C3_ShapeMismatch ==
    Constructed_cv =>
        /\ LengthsDiffer(values) => Raises(cv, "ShapeMismatch")
        /\ IsOk(cv) =>
             /\ Len(cv[2].predicted) = n_samples(cv[2])
             /\ ~IsNone(cv[2].standard_deviation)
                  => Len(Get(cv[2].standard_deviation)) = n_samples(cv[2])
             /\ ~IsNone(cv[2].labcodes) => Len(Get(cv[2].labcodes)) = n_samples(cv[2])
             /\ ~IsNone(cv[2].X) => Len(Get(cv[2].X).rows) = n_samples(cv[2])

\* only the row count of X is off, and construction raised ShapeMismatch
C3_Witness ==
    /\ Constructed_cv
    /\ Len(values.predicted) = Len(values.observed)
    /\ Len(values.observed) = 2
    /\ ~IsNone(values.standard_deviation)
    /\ Len(Get(values.standard_deviation)) = 2
    /\ ~IsNone(values.labcodes)
    /\ Len(Get(values.labcodes)) = 2
    /\ ~IsNone(values.X)
    /\ Len(Get(values.X).rows) = 1
    /\ Raises(cv, "ShapeMismatch")

\* C4: shapes are checked before types: arguments with both a length
\* mismatch and a non-numeric element in observed, predicted or
\* standard_deviation raise ShapeMismatch, not NotNumeric.
C4_ShapesBeforeTypes ==
    (Constructed_cv /\ LengthsDiffer(values) /\ NonNumericField(values)) =>
        (Raises(cv, "ShapeMismatch") /\ ~Raises(cv, "NotNumeric"))

\* observed holds a string and labcodes has the wrong length
C4_Witness ==
    /\ Constructed_cv
    /\ HasString(values.observed)
    /\ Len(values.predicted) = Len(values.observed)
    /\ ~IsNone(values.labcodes)
    /\ Len(Get(values.labcodes)) # Len(values.observed)
    /\ Raises(cv, "ShapeMismatch")

\* C5: with consistent lengths, construction raises NotNumeric whenever
\* observed, predicted or a present standard_deviation holds a non-numeric
\* element, and only then: labcodes and X are not checked for numbers.
C5_NotNumeric ==
    (Constructed_cv /\ ~LengthsDiffer(values)) =>
        /\ NonNumericField(values) => Raises(cv, "NotNumeric")
        /\ ~NonNumericField(values) => IsOk(cv)

\* standard_deviation alone holds a string, beside string labcodes and an X
\* of strings: NotNumeric names standard_deviation only
C5_Witness ==
    /\ Constructed_cv
    /\ ~LengthsDiffer(values)
    /\ Len(values.observed) = 2
    /\ ~HasString(values.observed)
    /\ ~HasString(values.predicted)
    /\ ~IsNone(values.standard_deviation)
    /\ HasString(Get(values.standard_deviation))
    /\ ~IsNone(values.labcodes)
    /\ ~IsNone(values.X)
    /\ Get(values.X).rows[1][1][1] = "str"
    /\ cv = Raise("NotNumeric", <<"standard_deviation">>)

\* C6: on a fold of one sample get_metric raises InsufficientSamples for
\* every metric of the registry and returns no value.
C6_InsufficientSamples ==
    (IsOk(cv) /\ Len(call) = 2 /\ call[1] = "get_metric"
        /\ Len(cv[2].observed) = 1) =>
        Raises(ret, "InsufficientSamples")

\* the mean absolute error, which one sample would allow, is refused too
C6_Witness ==
    /\ IsOk(cv)
    /\ call = <<"get_metric", "MAE">>
    /\ Len(cv[2].observed) = 1
    /\ Raises(ret, "InsufficientSamples")

---------------------------------------------------------------------------
\* Properties of CvResults (Spec)

\* the construction of the collection has run
Constructed_cvs == ~IsNone(cvs)

FoldSize(i) == Len(folds[i].observed)

\* number of elements of parts[1..i-1]
Offset(parts, i) == SumSeq([j \in 1..(i - 1) |-> Len(parts[j])])

\* whole is parts[1], parts[2], ... end to end, each in its own order
IsConcat(whole, parts) ==
    /\ Len(whole) = Offset(parts, Len(parts) + 1)
    /\ \A i \in 1..Len(parts) : \A r \in 1..Len(parts[i]) :
          whole[Offset(parts, i) + r] = parts[i][r]

\* the cell of a frame in row r under the column named c
CellAt(frame, r, c) ==
    frame.rows[r][CHOOSE j \in 1..Len(frame.columns) : frame.columns[j] = c]

HasSd(f) == ~IsNone(f.standard_deviation)

HasLabcodes(f) == ~IsNone(f.labcodes)

HasX(f) == ~IsNone(f.X)

AllOrNone(present) ==
    \/ \A i \in 1..Len(present) : present[i]
    \/ \A i \in 1..Len(present) : ~present[i]

EnoughFolds == Len(folds) >= 2

SameKeys == \A i \in 1..Len(folds) : folds[i].key = folds[1].key

SamePresence ==
    /\ AllOrNone([i \in 1..Len(folds) |-> HasSd(folds[i])])
    /\ AllOrNone([i \in 1..Len(folds) |-> HasLabcodes(folds[i])])
    /\ AllOrNone([i \in 1..Len(folds) |-> HasX(folds[i])])

SameColumnSets ==
    HasX(folds[1]) =>
        \A i \in 1..Len(folds) :
            Range(Get(folds[i].X).columns) = Range(Get(folds[1].X).columns)

\* C7: construction of a collection succeeds iff there are at least 2 folds,
\* all keys equal the first, each of standard_deviation, labcodes and X is
\* on all folds or on none, and the folds' X have the same set of column
\* names in any order; otherwise it raises EmptyCollection, KeyMismatch,
\* FieldPresenceMismatch or ColumnMismatch respectively.
C7_ValidateResults ==
    Constructed_cvs =>
        /\ IsOk(cvs) <=> (EnoughFolds /\ SameKeys /\ SamePresence /\ SameColumnSets)
        /\ IsOk(cvs) => cvs[2].results = folds
        /\ ~EnoughFolds => Raises(cvs, "EmptyCollection")
        /\ (EnoughFolds /\ ~SameKeys) => Raises(cvs, "KeyMismatch")
        /\ (EnoughFolds /\ SameKeys /\ ~SamePresence)
              => Raises(cvs, "FieldPresenceMismatch")
        /\ (EnoughFolds /\ SameKeys /\ SamePresence /\ ~SameColumnSets)
              => Raises(cvs, "ColumnMismatch")

\* folds whose X list the same columns in different orders are accepted
C7_Witness ==
    /\ IsOk(cvs)
    /\ HasX(folds[1])
    /\ Get(folds[1].X).columns = <<"a", "b">>
    /\ Get(folds[2].X).columns = <<"b", "a">>

C9_IsLoo ==
    (IsOk(cvs) /\ call = <<"is_loo">>) =>
        ret = Ok(\A i \in 1..Len(folds) : FoldSize(i) = 1)

\* a 1-sample fold beside a 2-sample fold: not leave-one-out
C9_Witness ==
    /\ IsOk(cvs)
    /\ call = <<"is_loo">>
    /\ FoldSize(1) = 2
    /\ FoldSize(2) = 1
    /\ ret = Ok(FALSE)

\* the metric computed on the data of one fold alone
MetricOn(metric, fold) ==
    metrics(metric, Values(fold.observed), Values(fold.predicted),
            fold.standard_deviation)

\* the metric computed on all folds' data end to end
MetricOnAll(metric) ==
    metrics(metric,
            Flatten([i \in 1..Len(folds) |-> Values(folds[i].observed)]),
            Flatten([i \in 1..Len(folds) |-> Values(folds[i].predicted)]),
            None)

LeaveOneOut == \A i \in 1..Len(folds) : FoldSize(i) = 1

NoEmptyFold == \A i \in 1..Len(folds) : FoldSize(i) >= 1

EveryFoldTwoSamples == \A i \in 1..Len(folds) : FoldSize(i) >= 2

CalledGetMetric == IsOk(cvs) /\ Len(call) = 3 /\ call[1] = "get_metric"

CalledGetMetrics == IsOk(cvs) /\ Len(call) = 3 /\ call[1] = "get_metrics"

\* ret is the Series named by the metric holding one value per fold, value i
\* computed on fold i alone
PerFoldSeries ==
    /\ IsOk(ret)
    /\ ret[2].name = call[2]
    /\ Len(ret[2].data) = Len(folds)
    /\ \A i \in 1..Len(folds) : ret[2].data[i] = MetricOn(call[2], folds[i])

\* C1 as stated: on every collection that is not leave-one-out,
\* get_metric(metric, combine_folds=False) returns one value per fold, in
\* fold order, named by the metric, value i computed on fold i alone.
C1_AsStated ==
    (CalledGetMetric /\ call[3] = FALSE /\ ~LeaveOneOut) => PerFoldSeries

\* C1 (amended): on a collection whose folds all have at least 2 samples,
\* get_metric(metric, combine_folds=False) returns one value per fold, in
\* fold order, named by the metric, value i computed on fold i alone; on a
\* collection that is not leave-one-out, has no empty fold and has a fold of
\* exactly 1 sample, it raises InsufficientSamples.
C1_PerFold ==
    (CalledGetMetric /\ call[3] = FALSE) =>
        /\ EveryFoldTwoSamples => PerFoldSeries
        /\ (~LeaveOneOut /\ NoEmptyFold /\ ~EveryFoldTwoSamples)
              => Raises(ret, "InsufficientSamples")

\* two folds of two samples gave two different per-fold mean absolute errors
C1_Witness ==
    /\ CalledGetMetric
    /\ call = <<"get_metric", "MAE", FALSE>>
    /\ EveryFoldTwoSamples
    /\ IsOk(ret)
    /\ Len(ret[2].data) = 2
    /\ ret[2].data[1] # ret[2].data[2]

\* C2 as stated: whenever the collection is leave-one-out or combine_folds
\* is true, get_metric returns a one-element Series named by the metric,
\* computed on the concatenation of all folds (so on a leave-one-out
\* collection both values of combine_folds give that same Series).
C2_AsStated ==
    (CalledGetMetric /\ (LeaveOneOut \/ call[3])) =>
        /\ IsOk(ret)
        /\ ret[2] = NamedSeries(call[2], <<MetricOnAll(call[2])>>)

\* ret is the table of get_metrics: the requested metrics as columns in
\* request order, column j being get_metric(metric j, combine_folds)
MetricsTable ==
    /\ IsOk(ret)
    /\ ret[2].columns = call[2]
    /\ call[2] = DefaultMetrics => Len(ret[2].columns) = 7
    /\ Len(ret[2].rows) = IF call[3] \/ LeaveOneOut THEN 1 ELSE Len(folds)
    /\ \A j \in 1..Len(call[2]) :
          LET column == CvResults_get_metric(cvs[2], call[2][j], call[3])
          IN /\ IsOk(column)
             /\ [r \in 1..Len(ret[2].rows) |-> ret[2].rows[r][j]] = column[2].data

---------------------------------------------------------------------------
\* Pooled and per-fold mean absolute error (Spec)

\* equality and mean of exact fractions <<"ratio", numerator, denominator>>
RatEq(a, b) == a[2] * b[3] = b[2] * a[3]

RatAdd(a, b) == Ratio(a[2] * b[3] + b[2] * a[3], a[3] * b[3])

RECURSIVE RatSum(_)
RatSum(s) == IF s = <<>> THEN Ratio(0, 1) ELSE RatAdd(Head(s), RatSum(Tail(s)))

RatMean(s) == Ratio(RatSum(s)[2], RatSum(s)[3] * Len(s))

\* the absolute errors of fold i, summed
FoldAbsError(i) ==
    SumSeq([r \in 1..FoldSize(i) |->
              Abs(folds[i].observed[r][2] - folds[i].predicted[r][2])])

EqualSizedFolds ==
    /\ FoldSize(1) > 1
    /\ \A i \in 1..Len(folds) : FoldSize(i) = FoldSize(1)

\* C11: on a collection whose folds all have the same number (> 1) of
\* samples, get_metric(MAE, combine_folds=True) equals the arithmetic mean of
\* the values of get_metric(MAE, combine_folds=False): the pooled sum of
\* absolute errors over the total sample count is the average of the
\* per-fold mean absolute errors.
C11_MaeIsMeanOfFolds ==
    (CalledGetMetric /\ call[2] = "MAE" /\ call[3] = TRUE /\ EqualSizedFolds) =>
        /\ IsOk(ret)
        /\ Len(ret[2].data) = 1
        /\ RatEq(ret[2].data[1],
                 Ratio(SumSeq([i \in 1..Len(folds) |-> FoldAbsError(i)]),
                       SumSeq([i \in 1..Len(folds) |-> FoldSize(i)])))
        /\ LET per_fold == CvResults_get_metric(cvs[2], "MAE", FALSE)
           IN /\ IsOk(per_fold)
              /\ Len(per_fold[2].data) = Len(folds)
              /\ RatEq(ret[2].data[1], RatMean(per_fold[2].data))

\* two folds of two samples with different mean absolute errors, pooled
C11_Witness ==
    /\ CalledGetMetric
    /\ call = <<"get_metric", "MAE", TRUE>>
    /\ EqualSizedFolds
    /\ FoldAbsError(1) # FoldAbsError(2)
    /\ IsOk(ret)
    /\ ret[2].data[1][2] > 0

---------------------------------------------------------------------------
\* Reads leave the collection alone (SpecReads)

\* what the call in progress returns on a collection constructed afresh from
\* the folds handed to the constructor
ResultOnFresh ==
    LET fresh == CvResultsInit(folds)[2]
    IN CASE call[1] = "key" -> Ok(key(fresh))
         [] call[1] = "is_loo" -> Ok(is_loo(fresh))
         [] call[1] = "_combine_folds" -> _combine_folds(fresh)
         [] call[1] = "get_metric" ->
                CvResults_get_metric(fresh, call[2], call[3])
         [] call[1] = "get_metrics" ->
                CvResults_get_metrics(fresh, call[2], call[3])
         [] call[1] = "getitem.n_samples" ->
                Ok(n_samples(folds[call[2]]))
         [] call[1] = "getitem.get_metric" ->
                CvResult_get_metric(folds[call[2]], call[3])

\* C12: no read mutates stored state.  Once the collection is constructed, no
\* step of is_loo, key, _combine_folds, get_metric, get_metrics (or of
\* get_metric / n_samples on one of its folds) changes the number, the order
\* or any field of the folds, and whatever calls came before, a call returns
\* what it returns on the collection as constructed.
C12_ReadsArePure ==
    /\ [][IsOk(cvs) => (cvs' = cvs /\ folds' = folds)]_vars
    /\ []((IsOk(cvs) /\ call # <<>>) =>
              (cvs[2].results = folds /\ ret = ResultOnFresh))

\* a metric has been read from the second fold of a constructed collection
C12_Witness ==
    /\ IsOk(cvs)
    /\ Len(call) = 3
    /\ call[1] = "getitem.get_metric"
    /\ call[2] = 2
    /\ IsOk(ret)
    /\ cvs[2].results = folds

---------------------------------------------------------------------------
\* The contingency table of the Fisher metric (SpecFisher)

CalledFisher == call = <<"_fisher_exact_test_p">> /\ IsOk(ret)

\* the table handed to fisher_exact is built from n_half = N // 2 selected
\* indices per array, has no negative entry and sums to N
TableAsDescribed ==
    LET N       == Len(values.observed)
        n_half  == N \div 2
        top_obs == TopHalf(values.observed)
        top_est == TopHalf(values.predicted)
        table   == ret[2][2]
        tp      == table[1]
    IN /\ Len(top_obs) = n_half
       /\ Len(top_est) = n_half
       /\ Cardinality(Range(top_obs)) = n_half
       /\ Cardinality(Range(top_est)) = n_half
       /\ tp = Cardinality(Range(top_est) \cap Range(top_obs))
       /\ table[2] = n_half - tp
       /\ table[3] = n_half - tp
       /\ table[4] = (N - n_half) - (n_half - tp)
       /\ \A i \in 1..4 : table[i] >= 0
       /\ table[1] + table[2] + table[3] + table[4] = N

\* C13: for observed and predicted of any equal length N >= 1,
\* _fisher_exact_test_p selects exactly n_half = N // 2 top-observed and
\* n_half top-predicted indices, builds tp, fp, fn, tn from them, and the four
\* entries are non-negative and sum to N.
C13_AsStated ==
    (CalledFisher /\ Len(values.observed) >= 1) => TableAsDescribed

\* from two samples on, the table is as described
FisherTableFromTwoSamples ==
    (CalledFisher /\ Len(values.observed) >= 2) => TableAsDescribed

---------------------------------------------------------------------------
\* Sample counts of constructed objects (SpecFold, Spec)

\* C14: every successfully constructed CvResult has n_samples >= 1, so the
\* combined fold of every successfully constructed CvResults has
\* n_samples >= 2 and get_metric(metric, combine_folds=True) never raises for
\* want of samples, whatever the metric.
C14_AsStated ==
    /\ IsOk(cv) => n_samples(cv[2]) >= 1
    /\ IsOk(cvs) =>
          /\ \A i \in 1..Len(cvs[2].results) : n_samples(cvs[2].results[i]) >= 1
          /\ (call = <<"_combine_folds">> /\ IsOk(ret)) => n_samples(ret[2]) >= 2
          /\ (CalledGetMetric /\ call[3] = TRUE) =>
                ~Raises(ret, "InsufficientSamples")

============================================================================
